---- MODULE Spec2Model ----
(***************************************************************************)
(* A model of the statistics routines of the clinical-trial dashboard:     *)
(* the Kaplan-Meier estimator, the restricted mean survival time, the      *)
(* hazard-ratio approximation, the diagnostic-classifier metrics that are  *)
(* computed inside the chart functions, and the descriptive statistics of  *)
(* stats.js.                                                               *)
(*                                                                         *)
(* Numbers.  A JavaScript number is modelled as a record [n, d]: the       *)
(* rational n/d in lowest terms when d > 0, +Infinity as [1, 0],           *)
(* -Infinity as [-1, 0] and NaN as [0, 0].  The arithmetic operators       *)
(* follow IEEE-754 for the special values (x/0, 0*Infinity, Math.max with  *)
(* a NaN argument, comparisons with NaN).  Rounding of finite results and  *)
(* the sign of zero are not modelled.  Math.sqrt and Math.exp of a finite  *)
(* value are computed in fixed point with PrecisionDigits decimals.        *)
(***************************************************************************)
EXTENDS Integers, Sequences, FiniteSets, TLC

VARIABLES
    currentStudy,  \* appState.currentStudy: the study whose charts are rendered
    survData,      \* calculateKM: the `data` argument (one arm's records)
    kmData,        \* calculateKM: the returned array, <<>> before the call
    medianTime,    \* findMedian: the value returned for kmData, <<>> before
    rmstResults,   \* calculateRMST: the calls made, [restrictionTime, rmst]
    armA,          \* calculateHR: the `armA` argument
    armB,          \* calculateHR: the `armB` argument
    hrResult,      \* calculateHR: the returned object, <<>> before the call
    forestTrace,   \* createHRForestPlot: what is plotted for one subgroup
    imgData,       \* the imaging study's `data` array
    gauges,        \* createDiagnosticGauges: the metrics shown, <<>> before
    roc,           \* createROCCurve: points, AUC and optimal point, <<>> before
    pr,            \* createPRCurve: points and average precision, <<>> before
    calibration,   \* createCalibrationPlot: bins and points, <<>> before
    explorer,      \* updateThresholdExplorer: the metrics last rendered
    accuracyChart, \* createDiagnosticAccuracyChart: the bars plotted
    decision,      \* createDecisionCurve: the three traces plotted
    arr1,          \* stats.js: the first (or only) array argument
    arr2,          \* stats.js: the second array argument of tTest and the like
    lastCall,      \* stats.js: the last call made and what it returned
    protocol,      \* window.location.protocol
    papaLoaded,    \* whether the page defines the global Papa
    initialized,   \* whether the DOMContentLoaded listener has run
    appState,      \* main.js: appState without currentStudy
    overlayHidden, \* the `hidden` property of the loading overlay
    loads,         \* the calls of loadDataAndRenderDashboard waiting at await
    rendered,      \* per study, the data its last rendering was made from
    sliderListeners, \* the input listeners attached to the threshold slider
    thresholdData, \* window._thresholdData
    sliderUpdate,  \* what the last input event of the slider triggered
    lastEvent      \* the last event dispatched, and appState.isLoading then

survVars == <<survData, kmData, medianTime, rmstResults>>
hrVars == <<armA, armB, hrResult, forestTrace>>
diagVars ==
    <<imgData, gauges, roc, pr, calibration, explorer, accuracyChart, decision>>
statsVars == <<arr1, arr2, lastCall>>
loadVars ==
    <<protocol, papaLoaded, initialized, appState, overlayHidden, loads,
      rendered, sliderListeners, thresholdData, sliderUpdate, lastEvent>>
vars == <<currentStudy, survVars, hrVars, diagVars, statsVars, loadVars>>

----------------------------------------------------------------------------
(* Bounds of the model *)

MaxRecords == 3
MaxTime == 2
MaxArm == 3
MaxObservations == 3
ScoreLevels == 2
SliderSteps == 2
PrecisionDigits == 2
MaxSample == 2
MaxSecondSample == 1
MaxValue == 2
MaxTreated == 2
MaxPlacebo == 4
MaxListeners == 2

----------------------------------------------------------------------------
(* JavaScript numbers *)

Abs(i) == IF i < 0 THEN -i ELSE i

Sign(i) == IF i > 0 THEN 1 ELSE IF i < 0 THEN -1 ELSE 0

RECURSIVE GCD(_, _)
GCD(a, b) == IF b = 0 THEN a ELSE GCD(b, a % b)

\* The finite number n/d (d > 0), in lowest terms.
Num(n, d) ==
    LET g == GCD(Abs(n), d)
    IN  [n |-> n \div g, d |-> d \div g]

FromInt(i) == [n |-> i, d |-> 1]

NaN == [n |-> 0, d |-> 0]
PosInf == [n |-> 1, d |-> 0]
NegInf == [n |-> -1, d |-> 0]
Zero == FromInt(0)
One == FromInt(1)

IsNaN(x) == x.d = 0 /\ x.n = 0
IsFinite(x) == x.d > 0
IsInfinite(x) == x.d = 0 /\ x.n # 0

Neg(x) == [n |-> -x.n, d |-> x.d]

Add(x, y) ==
    IF IsNaN(x) \/ IsNaN(y) THEN NaN
    ELSE IF IsFinite(x) /\ IsFinite(y)
         THEN LET g == GCD(x.d, y.d)
              IN  Num(x.n * (y.d \div g) + y.n * (x.d \div g), (x.d \div g) * y.d)
    ELSE IF IsFinite(x) THEN y
    ELSE IF IsFinite(y) THEN x
    ELSE IF x = y THEN x ELSE NaN

Sub(x, y) == Add(x, Neg(y))

Mul(x, y) ==
    IF IsNaN(x) \/ IsNaN(y) THEN NaN
    ELSE IF IsFinite(x) /\ IsFinite(y)
         THEN LET g == GCD(Abs(x.n), y.d)
                  h == GCD(Abs(y.n), x.d)
              IN  Num((x.n \div g) * (y.n \div h), (x.d \div h) * (y.d \div g))
    ELSE IF x.n = 0 \/ y.n = 0 THEN NaN
    ELSE [n |-> Sign(x.n) * Sign(y.n), d |-> 0]

Div(x, y) ==
    IF IsNaN(x) \/ IsNaN(y) THEN NaN
    ELSE IF IsFinite(x) /\ IsFinite(y)
         THEN IF y.n = 0 THEN [n |-> Sign(x.n), d |-> 0]
              ELSE LET g == GCD(Abs(x.n), Abs(y.n))
                       h == GCD(x.d, y.d)
                   IN  Num((x.n \div g) * (y.d \div h) * Sign(y.n),
                           (x.d \div h) * (Abs(y.n) \div g))
    ELSE IF IsFinite(x) THEN Zero
    ELSE IF IsFinite(y) THEN [n |-> x.n * (IF y.n < 0 THEN -1 ELSE 1), d |-> 0]
    ELSE NaN

\* x <= y; false when either side is NaN.
LE(x, y) ==
    /\ ~IsNaN(x)
    /\ ~IsNaN(y)
    /\ IF IsInfinite(x) /\ IsInfinite(y) THEN x.n <= y.n
       ELSE x.n * y.d <= y.n * x.d

LT(x, y) == LE(x, y) /\ x # y

MathMax(x, y) ==
    IF IsNaN(x) \/ IsNaN(y) THEN NaN ELSE IF LE(x, y) THEN y ELSE x

MathMin(x, y) ==
    IF IsNaN(x) \/ IsNaN(y) THEN NaN ELSE IF LE(x, y) THEN x ELSE y

RECURSIVE Pow10(_)
Pow10(k) == IF k = 0 THEN 1 ELSE 10 * Pow10(k - 1)

Scale == Pow10(PrecisionDigits)

\* The largest r in lo..hi with r * r <= k.
RECURSIVE ISqrtBetween(_, _, _)
ISqrtBetween(k, lo, hi) ==
    IF lo >= hi THEN lo
    ELSE LET mid == (lo + hi + 1) \div 2
         IN  IF mid * mid <= k THEN ISqrtBetween(k, mid, hi)
             ELSE ISqrtBetween(k, lo, mid - 1)

ISqrt(k) == ISqrtBetween(k, 0, IF k < 46340 THEN k ELSE 46340)

MathFloor(x) == IF IsFinite(x) THEN FromInt(x.n \div x.d) ELSE x

\* parseFloat(x.toFixed(digits)): x rounded to `digits` decimals, a half
\* rounded away from zero; NaN and the infinities print and parse as themselves.
ToFixed(x, digits) ==
    IF IsFinite(x)
    THEN Num(Sign(x.n) * ((2 * Abs(x.n) * Pow10(digits) + x.d) \div (2 * x.d)),
             Pow10(digits))
    ELSE x

MathSqrt(x) ==
    IF IsNaN(x) \/ x.n < 0 THEN NaN
    ELSE IF IsInfinite(x) THEN PosInf
    ELSE Num(ISqrt((x.n * Scale * Scale) \div x.d), Scale)

\* Sum of the Taylor series of exp at xs / Scale >= 0, in units of 1 / Scale.
RECURSIVE ExpSeries(_, _, _, _)
ExpSeries(xs, k, term, sum) ==
    IF term = 0 THEN sum
    ELSE LET next == (term * xs) \div (k * Scale)
         IN  ExpSeries(xs, k + 1, next, sum + next)

MathExp(x) ==
    IF IsNaN(x) THEN NaN
    ELSE IF IsInfinite(x) THEN (IF x.n > 0 THEN PosInf ELSE Zero)
    ELSE LET xs == (Abs(x.n) * Scale) \div x.d
             e == ExpSeries(xs, 1, Scale, Scale)
         IN  IF x.n >= 0 THEN Num(e, Scale) ELSE Num((Scale * Scale) \div e, Scale)

----------------------------------------------------------------------------
(* Arrays *)

\* The elements of a finite set of integers, ascending.
RECURSIVE SortedSeq(_)
SortedSeq(S) ==
    IF S = {} THEN <<>>
    ELSE LET m == CHOOSE x \in S : \A y \in S : x <= y
         IN  <<m>> \o SortedSeq(S \ {m})

\* All sequences over S of length at most n.
SeqsUpTo(S, n) == UNION {[1..k -> S] : k \in 0..n}

\* arr.reduce((a, b) => a + b, 0)
RECURSIVE Sum(_)
Sum(arr) == IF arr = <<>> THEN Zero ELSE Add(Sum(SubSeq(arr, 1, Len(arr) - 1)), arr[Len(arr)])

----------------------------------------------------------------------------
(* Kaplan-Meier estimator *)

SurvRecords == [time_months : 0..MaxTime, event : {0, 1}]

\* r placed behind every element of the ascending array whose time is <= its own.
RECURSIVE InsertByTime(_, _)
InsertByTime(sorted, r) ==
    IF sorted = <<>> THEN <<r>>
    ELSE IF Head(sorted).time_months <= r.time_months
         THEN <<Head(sorted)>> \o InsertByTime(Tail(sorted), r)
         ELSE <<r>> \o sorted

\* [...data].sort((a, b) => a.time_months - b.time_months), a stable sort.
RECURSIVE SortByTime(_)
SortByTime(data) ==
    IF data = <<>> THEN <<>>
    ELSE InsertByTime(SortByTime(SubSeq(data, 1, Len(data) - 1)), data[Len(data)])

\* The Greenwood term added at a time with events.
GreenwoodTerm(eventsAtT, atRisk) ==
    Div(FromInt(eventsAtT), FromInt(atRisk * (atRisk - eventsAtT)))

\* SurvivalFactor with the sign of the event fraction slipped.
SurvivalFactorGrowing(eventsAtT, atRisk) ==
    Add(One, Div(FromInt(eventsAtT), FromInt(atRisk)))

\* The factor of the survival probability at a time with events.
SurvivalFactor(eventsAtT, atRisk) ==
    Sub(One, Div(FromInt(eventsAtT), FromInt(atRisk)))

Z95 == Num(196, 100)

\* One iteration of `for (const t of uniqueTimes)`: the point pushed and the
\* survProb and greenwoodVar carried to the next iteration.
KMStep(sorted, t, survProb, greenwoodVar) ==
    LET eventsAtT == Len(SelectSeq(sorted, LAMBDA d : d.time_months = t /\ d.event = 1))
        atRisk == Len(SelectSeq(sorted, LAMBDA d : d.time_months >= t))
        hit == eventsAtT > 0 /\ atRisk > 0
        sp == IF hit THEN Mul(survProb, SurvivalFactor(eventsAtT, atRisk)) ELSE survProb
        gv == IF hit THEN Add(greenwoodVar, GreenwoodTerm(eventsAtT, atRisk))
              ELSE greenwoodVar
        se == Mul(sp, MathSqrt(gv))
    IN  [survProb |-> sp,
         greenwoodVar |-> gv,
         point |-> [time |-> t,
                    survival |-> sp,
                    lower |-> MathMax(Zero, Sub(sp, Mul(Z95, se))),
                    upper |-> MathMin(One, Add(sp, Mul(Z95, se))),
                    atRisk |-> atRisk - eventsAtT,
                    events |-> eventsAtT]]

RECURSIVE KMLoop(_, _, _, _, _)
KMLoop(sorted, uniqueTimes, survProb, greenwoodVar, acc) ==
    IF uniqueTimes = <<>> THEN acc
    ELSE LET step == KMStep(sorted, Head(uniqueTimes), survProb, greenwoodVar)
         IN  KMLoop(sorted, Tail(uniqueTimes), step.survProb, step.greenwoodVar,
                    Append(acc, step.point))

KMInitialPoint(n) ==
    [time |-> 0, survival |-> One, lower |-> One, upper |-> One,
     atRisk |-> n, events |-> 0]

\* The array `data` after a sort applied to `data` itself.
DataSortedInPlace(data) == SortByTime(data)

\* The array `data` after calculateKM returns: the sort is applied to the
\* copy [...data] and nothing else is written.
DataAfterCalculateKM(data) == data

calculateKM(data) ==
    LET sorted == SortByTime(data)
        uniqueTimes == SortedSeq({sorted[i].time_months : i \in DOMAIN sorted})
    IN  KMLoop(sorted, uniqueTimes, One, Zero, <<KMInitialPoint(Len(sorted))>>)

----------------------------------------------------------------------------
(* Restricted mean survival time *)

IntMin(a, b) == IF a <= b THEN a ELSE b

\* The trapezoids of the whole curve from index i on: the loop without the
\* clip to restrictionTime and without the break.
RECURSIVE RMSTLoopUnrestricted(_, _, _, _, _, _)
RMSTLoopUnrestricted(km, restrictionTime, i, rmst, prevTime, prevSurvival) ==
    IF i > Len(km)
    THEN [rmst |-> rmst, prevTime |-> prevTime, prevSurvival |-> prevSurvival]
    ELSE RMSTLoopUnrestricted(km, restrictionTime, i + 1,
             Add(rmst, Mul(FromInt(km[i].time - prevTime),
                           Div(Add(prevSurvival, km[i].survival), FromInt(2)))),
             km[i].time, km[i].survival)

\* The loop of calculateRMST from index i on; yields rmst, prevTime and
\* prevSurvival as they are when the loop is left (by `break` or at the end).
RECURSIVE RMSTLoop(_, _, _, _, _, _)
RMSTLoop(km, restrictionTime, i, rmst, prevTime, prevSurvival) ==
    IF i > Len(km)
    THEN [rmst |-> rmst, prevTime |-> prevTime, prevSurvival |-> prevSurvival]
    ELSE LET currentTime == IntMin(km[i].time, restrictionTime)
             currentSurvival == km[i].survival
             timeInterval == FromInt(currentTime - prevTime)
             avgSurvival == Div(Add(prevSurvival, currentSurvival), FromInt(2))
             sum == Add(rmst, Mul(timeInterval, avgSurvival))
         IN  IF currentTime >= restrictionTime
             THEN [rmst |-> sum, prevTime |-> prevTime, prevSurvival |-> prevSurvival]
             ELSE RMSTLoop(km, restrictionTime, i + 1, sum, currentTime, currentSurvival)

\* The `if (prevTime < restrictionTime)` rectangle after the loop.
RMSTFinalRectangle(restrictionTime, after) ==
    IF after.prevTime < restrictionTime
    THEN Add(after.rmst,
             Mul(FromInt(restrictionTime - after.prevTime), after.prevSurvival))
    ELSE after.rmst

\* The array `kmData` after calculateRMST returns: it is only read.
KMAfterCalculateRMST(km) == km

calculateRMST(km, restrictionTime) ==
    RMSTFinalRectangle(restrictionTime,
                       RMSTLoop(km, restrictionTime, 1, Zero, 0, One))

RestrictionTimes == 0..(MaxTime + 1)

Half == Num(1, 2)

\* km[i].survival <= 0.5
AtOrBelowHalf(point) == LE(point.survival, Half)

\* km[i].survival < 0.5
BelowHalf(point) == LT(point.survival, Half)

\* The loop of findMedian from index i on (indices from 1 here).
RECURSIVE FindMedianFrom(_, _)
FindMedianFrom(km, i) ==
    IF i > Len(km) THEN FromInt(km[Len(km)].time)
    ELSE IF BelowHalf(km[i])
         THEN IF i > 1 THEN Div(FromInt(km[i - 1].time + km[i].time), FromInt(2))
              ELSE FromInt(km[i].time)
         ELSE FindMedianFrom(km, i + 1)

findMedian(km) == FindMedianFrom(km, 1)

----------------------------------------------------------------------------
(* The survival routines applied to one arm's records *)

\* The studies of appState.currentStudy.
ClinicalStudy == 1
ImagingStudy == 2
SurvivalStudy == 3

\* Nothing loaded and nothing computed for the survival curves.
NoSurvival ==
    /\ survData = <<>>
    /\ kmData = <<>>
    /\ medianTime = <<>>
    /\ rmstResults = {}

NoHazardRatio ==
    /\ armA = <<>>
    /\ armB = <<>>
    /\ hrResult = <<>>
    /\ forestTrace = <<>>

NoDiagnostics ==
    /\ imgData = <<>>
    /\ gauges = <<>>
    /\ roc = <<>>
    /\ pr = <<>>
    /\ calibration = <<>>
    /\ explorer = <<>>
    /\ accuracyChart = <<>>
    /\ decision = <<>>

NoStatistics ==
    /\ arr1 = <<>>
    /\ arr2 = <<>>
    /\ lastCall = <<>>

\* appState.currentStudy after a click on the home tab, and the fourth study.
Home == 0
AdvancedStudy == 4
Studies == {ClinicalStudy, ImagingStudy, SurvivalStudy, AdvancedStudy}

\* The values of the data fields of appState: null and the datasets that the
\* loaders of data-loader.js resolve with.
NoData == "null"
EmbeddedClinicalData == "enrichData(EMBEDDED_SAMPLE_DATA)"
CsvClinicalData == "enrichData(results.data)"
ImagingStudyData == "IMAGING_STUDY_DATA"
SurvivalStudyData == "SURVIVAL_STUDY_DATA"
AdvancedAnalyticsData == "ADVANCED_ANALYTICS_DATA"

\* What `rendered` holds for a study never rendered, and for one whose
\* rendering threw.
NotRendered == "not rendered"
RenderingThrew == "rendering threw"

InitialAppState ==
    [clinicalData |-> NoData, imagingData |-> NoData, survivalData |-> NoData,
     advancedData |-> NoData, isLoading |-> FALSE, hasError |-> FALSE,
     errorMessage |-> ""]

\* The page before its scripts have handled any event.
PageNotStarted ==
    /\ initialized = FALSE
    /\ appState = InitialAppState
    /\ loads = <<>>
    /\ rendered = [study \in Studies |-> NotRendered]
    /\ sliderListeners = 0
    /\ thresholdData = NoData
    /\ sliderUpdate = <<>>
    /\ lastEvent = <<>>

NoLoad ==
    /\ protocol = "file:"
    /\ papaLoaded = TRUE
    /\ overlayHidden = TRUE
    /\ PageNotStarted

InitKM ==
    /\ currentStudy = SurvivalStudy
    /\ survData \in SeqsUpTo(SurvRecords, MaxRecords)
    /\ kmData = <<>>
    /\ medianTime = <<>>
    /\ rmstResults = {}
    /\ NoHazardRatio
    /\ NoDiagnostics
    /\ NoStatistics
    /\ NoLoad

CallCalculateKM ==
    /\ currentStudy = SurvivalStudy
    /\ kmData = <<>>
    /\ kmData' = calculateKM(survData)
    /\ survData' = DataAfterCalculateKM(survData)
    /\ UNCHANGED <<currentStudy, loadVars, medianTime, rmstResults, hrVars, diagVars, statsVars>>

CallCalculateRMST(restrictionTime) ==
    /\ currentStudy = SurvivalStudy
    /\ kmData # <<>>
    /\ \A r \in rmstResults : r.restrictionTime # restrictionTime
    /\ rmstResults' = rmstResults \cup
           {[restrictionTime |-> restrictionTime,
             rmst |-> calculateRMST(kmData, restrictionTime)]}
    /\ kmData' = KMAfterCalculateRMST(kmData)
    /\ UNCHANGED <<currentStudy, loadVars, survData, medianTime, hrVars, diagVars, statsVars>>

\* createSurvivalSummaryChart: medianA = findMedian(kmA).
CallFindMedian ==
    /\ currentStudy = SurvivalStudy
    /\ kmData # <<>>
    /\ medianTime = <<>>
    /\ medianTime' = <<findMedian(kmData)>>
    /\ UNCHANGED <<currentStudy, loadVars, survData, kmData, rmstResults, hrVars, diagVars, statsVars>>

NextKM ==
    \/ CallCalculateKM
    \/ CallFindMedian
    \/ \E restrictionTime \in RestrictionTimes : CallCalculateRMST(restrictionTime)

SpecKM == InitKM /\ [][NextKM]_vars

----------------------------------------------------------------------------
(* Hazard-ratio approximation *)

\* The field of a survival record that calculateHR reads.
ArmRecords == [event : {0, 1}]

calculateHR(a, b) ==
    LET eventsA == Len(SelectSeq(a, LAMBDA d : d.event = 1))
        eventsB == Len(SelectSeq(b, LAMBDA d : d.event = 1))
        totalA == Len(a)
        totalB == Len(b)
        rateA == Div(FromInt(eventsA), FromInt(totalA))
        rateB == Div(FromInt(eventsB), FromInt(totalB))
        hr == Div(rateA, rateB)
        se == MathSqrt(Add(Div(One, FromInt(eventsA)), Div(One, FromInt(eventsB))))
    IN  [hr |-> hr,
         ciLower |-> Mul(hr, MathExp(Mul(Neg(Z95), se))),
         ciUpper |-> Mul(hr, MathExp(Mul(Z95, se))),
         nA |-> totalA,
         nB |-> totalB]

\* What createHRForestPlot makes of one calculateHR result: the subgroup entry
\* {hr, lower, upper} and, from it, the marker position and the error bars.
ForestTraceOf(h) ==
    [x |-> h.hr,
     array |-> Sub(h.ciUpper, h.hr),
     arrayminus |-> Sub(h.hr, h.ciLower),
     customdata |-> <<h.ciLower, h.ciUpper>>]

InitHR ==
    /\ currentStudy = SurvivalStudy
    /\ armA \in SeqsUpTo(ArmRecords, MaxArm)
    /\ armB \in SeqsUpTo(ArmRecords, MaxArm)
    /\ hrResult = <<>>
    /\ forestTrace = <<>>
    /\ NoSurvival
    /\ NoDiagnostics
    /\ NoStatistics
    /\ NoLoad

CallCalculateHR ==
    /\ currentStudy = SurvivalStudy
    /\ hrResult = <<>>
    /\ hrResult' = <<calculateHR(armA, armB)>>
    /\ UNCHANGED <<currentStudy, loadVars, armA, armB, forestTrace, survVars, diagVars, statsVars>>

PlotForestTrace ==
    /\ currentStudy = SurvivalStudy
    /\ hrResult # <<>>
    /\ forestTrace = <<>>
    /\ forestTrace' = <<ForestTraceOf(hrResult[1])>>
    /\ UNCHANGED <<currentStudy, loadVars, armA, armB, hrResult, survVars, diagVars, statsVars>>

NextHR ==
    \/ CallCalculateHR
    \/ PlotForestTrace

SpecHR == InitHR /\ [][NextHR]_vars

----------------------------------------------------------------------------
(* Diagnostic-classifier metrics *)

Statuses == {"Positive", "Negative"}

Scores == {Num(k, ScoreLevels) : k \in 0..ScoreLevels}

\* The fields of an imaging record that the score-based charts read.
ImagingRecords == [disease_status : Statuses, predicted_probability : Scores]

\* The fields of an imaging record that createDiagnosticAccuracyChart reads.
ReadingRecords == [disease_status : Statuses, imaging_result : Statuses]

\* The confusion counts with a score equal to the threshold counted as below it.
ConfusionAbove(data, threshold) ==
    LET pos == SelectSeq(data, LAMBDA p : p.disease_status = "Positive")
        neg == SelectSeq(data, LAMBDA p : p.disease_status = "Negative")
    IN  [tp |-> Len(SelectSeq(pos, LAMBDA p : LT(threshold, p.predicted_probability))),
         fn |-> Len(SelectSeq(pos, LAMBDA p : LE(p.predicted_probability, threshold))),
         tn |-> Len(SelectSeq(neg, LAMBDA p : LE(p.predicted_probability, threshold))),
         fp |-> Len(SelectSeq(neg, LAMBDA p : LT(threshold, p.predicted_probability)))]

\* The confusion counts of createDiagnosticGauges and updateThresholdExplorer.
ConfusionAt(data, threshold) ==
    LET pos == SelectSeq(data, LAMBDA p : p.disease_status = "Positive")
        neg == SelectSeq(data, LAMBDA p : p.disease_status = "Negative")
    IN  [tp |-> Len(SelectSeq(pos, LAMBDA p : LE(threshold, p.predicted_probability))),
         fn |-> Len(SelectSeq(pos, LAMBDA p : LT(p.predicted_probability, threshold))),
         tn |-> Len(SelectSeq(neg, LAMBDA p : LT(p.predicted_probability, threshold))),
         fp |-> Len(SelectSeq(neg, LAMBDA p : LE(threshold, p.predicted_probability)))]

Ratio(a, b) == Div(FromInt(a), FromInt(b))

\* The JavaScript expression `x || 0` on a number: 0 and NaN are falsy.
OrZero(x) == IF IsNaN(x) \/ x = Zero THEN Zero ELSE x

\* r placed behind every element of the descending array whose score is >= its own.
RECURSIVE InsertByScoreDesc(_, _)
InsertByScoreDesc(sorted, r) ==
    IF sorted = <<>> THEN <<r>>
    ELSE IF LE(r.predicted_probability, Head(sorted).predicted_probability)
         THEN <<Head(sorted)>> \o InsertByScoreDesc(Tail(sorted), r)
         ELSE <<r>> \o sorted

\* The array in the order it was given.
KeepOrder(data) == data

\* [...data].sort((a, b) => b.predicted_probability - a.predicted_probability),
\* a stable sort.
RECURSIVE SortByScoreDesc(_)
SortByScoreDesc(data) ==
    IF data = <<>> THEN <<>>
    ELSE InsertByScoreDesc(SortByScoreDesc(SubSeq(data, 1, Len(data) - 1)),
                           data[Len(data)])

\* The sweep of createROCCurve: one point pushed per patient of `sorted`.
RECURSIVE ROCSweep(_, _, _, _, _, _)
ROCSweep(sorted, totalPos, totalNeg, tp, fp, rocPoints) ==
    IF sorted = <<>> THEN rocPoints
    ELSE LET patient == Head(sorted)
             tp2 == IF patient.disease_status = "Positive" THEN tp + 1 ELSE tp
             fp2 == IF patient.disease_status = "Positive" THEN fp ELSE fp + 1
         IN  ROCSweep(Tail(sorted), totalPos, totalNeg, tp2, fp2,
                      Append(rocPoints,
                             [fpr |-> Ratio(fp2, totalNeg),
                              tpr |-> Ratio(tp2, totalPos),
                              threshold |-> patient.predicted_probability]))

\* The width times the sum of the two heights: the trapezoid without the
\* division by 2.
TrapezoidAreaUnhalved(prev, cur) ==
    Mul(Sub(cur.fpr, prev.fpr), Add(cur.tpr, prev.tpr))

\* The area of one trapezoid of the ROC curve.
TrapezoidArea(prev, cur) ==
    Mul(Sub(cur.fpr, prev.fpr), Div(Add(cur.tpr, prev.tpr), FromInt(2)))

\* `for (let i = 1; i < rocPoints.length; i++)` (indices from 1 here).
RECURSIVE TrapezoidalAUC(_, _)
TrapezoidalAUC(rocPoints, i) ==
    IF i > Len(rocPoints) THEN Zero
    ELSE Add(TrapezoidArea(rocPoints[i - 1], rocPoints[i]),
             TrapezoidalAUC(rocPoints, i + 1))

\* The search for the point of greatest Youden's J, from point i on.
RECURSIVE YoudenSearch(_, _, _, _)
YoudenSearch(rocPoints, i, maxJ, optimalPoint) ==
    IF i > Len(rocPoints) THEN [maxJ |-> maxJ, optimalPoint |-> optimalPoint]
    ELSE LET j == Sub(rocPoints[i].tpr, rocPoints[i].fpr)
         IN  IF LT(maxJ, j) THEN YoudenSearch(rocPoints, i + 1, j, rocPoints[i])
             ELSE YoudenSearch(rocPoints, i + 1, maxJ, optimalPoint)

\* The array `data` after createROCCurve returns: the sort is applied to the
\* copy [...data].
DataAfterCreateROCCurve(data) == data

createROCCurve(data) ==
    LET sorted == SortByScoreDesc(data)
        totalPos == Len(SelectSeq(sorted, LAMBDA p : p.disease_status = "Positive"))
        totalNeg == Len(SelectSeq(sorted, LAMBDA p : p.disease_status = "Negative"))
        rocPoints == ROCSweep(sorted, totalPos, totalNeg, 0, 0,
                              <<[fpr |-> Zero, tpr |-> Zero, threshold |-> One]>>)
        best == YoudenSearch(rocPoints, 1, FromInt(-1), rocPoints[1])
    IN  [rocPoints |-> rocPoints,
         auc |-> TrapezoidalAUC(rocPoints, 2),
         maxJ |-> best.maxJ,
         optimalPoint |-> best.optimalPoint]

\* The sweep of createPRCurve: one point pushed per patient of `sorted`, and
\* the average precision summed over the steps where recall rises.
RECURSIVE PRSweep(_, _, _, _, _, _, _)
PRSweep(sorted, totalPos, tp, fp, prevRecall, ap, prPoints) ==
    IF sorted = <<>> THEN [prPoints |-> prPoints, ap |-> ap]
    ELSE LET patient == Head(sorted)
             tp2 == IF patient.disease_status = "Positive" THEN tp + 1 ELSE tp
             fp2 == IF patient.disease_status = "Positive" THEN fp ELSE fp + 1
             precision == Ratio(tp2, tp2 + fp2)
             recall == Ratio(tp2, totalPos)
             rises == LT(prevRecall, recall)
         IN  PRSweep(Tail(sorted), totalPos, tp2, fp2,
                     IF rises THEN recall ELSE prevRecall,
                     IF rises THEN Add(ap, Mul(precision, Sub(recall, prevRecall)))
                     ELSE ap,
                     Append(prPoints,
                            [precision |-> precision,
                             recall |-> recall,
                             threshold |-> patient.predicted_probability]))

\* The array `data` after createPRCurve returns: the sort is applied to the
\* copy [...data].
DataAfterCreatePRCurve(data) == data

createPRCurve(data) ==
    LET sorted == SortByScoreDesc(data)
        totalPos == Len(SelectSeq(sorted, LAMBDA p : p.disease_status = "Positive"))
        swept == PRSweep(sorted, totalPos, 0, 0, Zero, Zero, <<>>)
    IN  [prPoints |-> <<[precision |-> One, recall |-> Zero, threshold |-> One]>>
                      \o swept.prPoints,
         ap |-> swept.ap]

\* The number of bins of the calibration plot.
NumBins == 10

EmptyBins ==
    [i \in 1..NumBins |-> [lower |-> Num(i - 1, NumBins),
                           upper |-> Num(i, NumBins),
                           predicted |-> <<>>,
                           observed |-> <<>>]]

\* Math.floor(prob * 10)
BinIndexUnclamped(prob) == MathFloor(Mul(prob, FromInt(NumBins)))

\* Math.min(Math.floor(prob * 10), 9)
BinIndex(prob) ==
    MathMin(MathFloor(Mul(prob, FromInt(NumBins))), FromInt(NumBins - 1))

\* `for (const patient of data)`: bins[binIdx] is the element at index
\* binIdx + 1 here.  An index that is not one of 0..9 makes bins[binIdx]
\* undefined and the push throws: <<>> stands for the plot that is not drawn.
RECURSIVE AssignToBins(_, _)
AssignToBins(data, bins) ==
    IF data = <<>> THEN bins
    ELSE LET patient == Head(data)
             prob == patient.predicted_probability
             binIdx == BinIndex(prob)
         IN  IF IsFinite(binIdx) /\ binIdx.n \in 0..(NumBins - 1)
             THEN AssignToBins(Tail(data),
                      [bins EXCEPT ![binIdx.n + 1] =
                          [@ EXCEPT !.predicted = Append(@, prob),
                                    !.observed = Append(@,
                                        IF patient.disease_status = "Positive"
                                        THEN One ELSE Zero)]])
             ELSE <<>>

\* `for (const bin of bins)`: one point per bin that holds a prediction.
RECURSIVE CalibrationPoints(_, _)
CalibrationPoints(bins, i) ==
    IF i > Len(bins) THEN <<>>
    ELSE LET bin == bins[i]
         IN  (IF Len(bin.predicted) > 0
              THEN <<[predicted |-> Div(Sum(bin.predicted), FromInt(Len(bin.predicted))),
                      observed |-> Div(Sum(bin.observed), FromInt(Len(bin.observed))),
                      count |-> Len(bin.predicted)]>>
              ELSE <<>>) \o CalibrationPoints(bins, i + 1)

createCalibrationPlot(data) ==
    LET bins == AssignToBins(data, EmptyBins)
    IN  [bins |-> bins, calibrationPoints |-> CalibrationPoints(bins, 1)]

\* The AUC loop of createDiagnosticGauges.
RECURSIVE GaugeAUC(_, _, _, _, _, _, _)
GaugeAUC(sorted, nPos, nNeg, aucTp, aucFp, auc, prevFpr) ==
    IF sorted = <<>> THEN auc
    ELSE LET patient == Head(sorted)
             tp2 == IF patient.disease_status = "Positive" THEN aucTp + 1 ELSE aucTp
             fp2 == IF patient.disease_status = "Positive" THEN aucFp ELSE aucFp + 1
             tpr == Ratio(tp2, nPos)
             fpr == Ratio(fp2, nNeg)
         IN  GaugeAUC(Tail(sorted), nPos, nNeg, tp2, fp2,
                      Add(auc, Mul(tpr, Sub(fpr, prevFpr))), fpr)

createDiagnosticGauges(data, threshold) ==
    LET c == ConfusionAt(data, threshold)
        sensitivity == Ratio(c.tp, c.tp + c.fn)
        specificity == Ratio(c.tn, c.tn + c.fp)
        nPos == Len(SelectSeq(data, LAMBDA p : p.disease_status = "Positive"))
        nNeg == Len(SelectSeq(data, LAMBDA p : p.disease_status = "Negative"))
    IN  [counts |-> c,
         auc |-> GaugeAUC(SortByScoreDesc(data), nPos, nNeg, 0, 0, Zero, Zero),
         sensitivity |-> sensitivity,
         specificity |-> specificity,
         youdenJ |-> Sub(Add(sensitivity, specificity), One)]

updateThresholdExplorer(threshold, data) ==
    LET c == ConfusionAt(data, threshold)
        sensitivity == OrZero(Ratio(c.tp, c.tp + c.fn))
        ppv == OrZero(Ratio(c.tp, c.tp + c.fp))
    IN  [threshold |-> threshold,
         counts |-> c,
         sensitivity |-> sensitivity,
         specificity |-> OrZero(Ratio(c.tn, c.tn + c.fp)),
         ppv |-> ppv,
         npv |-> OrZero(Ratio(c.tn, c.tn + c.fn)),
         accuracy |-> Ratio(c.tp + c.tn, Len(data)),
         f1 |-> OrZero(Div(Mul(FromInt(2), Mul(ppv, sensitivity)),
                           Add(ppv, sensitivity)))]

\* The confusion counts of createDiagnosticAccuracyChart, from imaging_result.
ConfusionOfImaging(data) ==
    LET Both(status, result) ==
            Len(SelectSeq(data, LAMBDA d : d.disease_status = status
                                    /\ d.imaging_result = result))
    IN  [tp |-> Both("Positive", "Positive"),
         fn |-> Both("Positive", "Negative"),
         fp |-> Both("Negative", "Positive"),
         tn |-> Both("Negative", "Negative")]

Percent(x) == Mul(x, FromInt(100))

createDiagnosticAccuracyChart(data) ==
    LET c == ConfusionOfImaging(data)
    IN  [counts |-> c,
         sensitivity |-> Percent(Ratio(c.tp, c.tp + c.fn)),
         specificity |-> Percent(Ratio(c.tn, c.tn + c.fp)),
         ppv |-> Percent(Ratio(c.tp, c.tp + c.fp)),
         npv |-> Percent(Ratio(c.tn, c.tn + c.fn)),
         accuracy |-> Percent(Ratio(c.tp + c.tn, Len(data)))]

\* The net benefit left as computed.
Unclamped(nb) == nb

\* The net benefit with the negative values raised to 0.
ClampAtZero(nb) == MathMax(nb, Zero)

\* The values t takes in `for (let t = 0.01; t <= 0.99; t += 0.02)`, in
\* hundredths and in the order of the loop.  The rounding of the accumulated
\* t is not modelled.
ThresholdGrid ==
    LET hundredths == {h \in 1..99 : (h - 1) % 2 = 0}
    IN  [i \in 1..Cardinality(hundredths) |-> Num(2 * i - 1, 100)]

\* One pass of the loop of createDecisionCurve: the three net benefits pushed
\* for threshold t.
DecisionLoop(data, prevalence, t) ==
    LET n == FromInt(Len(data))
        counts == ConfusionAt(data, t)
        odds == Div(t, Sub(One, t))
        nb == Sub(Div(FromInt(counts.tp), n),
                  Mul(Div(FromInt(counts.fp), n), odds))
        nbAll == Sub(prevalence, Mul(Sub(One, prevalence), odds))
    IN  [model |-> ClampAtZero(nb), treatAll |-> ClampAtZero(nbAll),
         treatNone |-> Zero]

createDecisionCurve(data) ==
    LET positives == SelectSeq(data, LAMBDA p : p.disease_status = "Positive")
        prevalence == Div(FromInt(Len(positives)), FromInt(Len(data)))
        pushed == [i \in DOMAIN ThresholdGrid |->
                      DecisionLoop(data, prevalence, ThresholdGrid[i])]
    IN  [thresholds |-> ThresholdGrid,
         modelNetBenefit |-> [i \in DOMAIN pushed |-> pushed[i].model],
         treatAllNetBenefit |-> [i \in DOMAIN pushed |-> pushed[i].treatAll],
         treatNoneNetBenefit |-> [i \in DOMAIN pushed |-> pushed[i].treatNone]]

\* The threshold renderImagingStudy passes and createThresholdExplorer starts at.
DefaultThreshold == Num(1, 2)

\* The positions of the threshold slider; its handler divides by 100.
SliderValues == {(100 * k) \div SliderSteps : k \in 0..SliderSteps}

InitDiag ==
    /\ currentStudy = ImagingStudy
    /\ imgData \in SeqsUpTo(ImagingRecords, MaxObservations)
    /\ gauges = <<>>
    /\ roc = <<>>
    /\ pr = <<>>
    /\ calibration = <<>>
    /\ explorer = <<>>
    /\ accuracyChart = <<>>
    /\ decision = <<>>
    /\ NoSurvival
    /\ NoHazardRatio
    /\ NoStatistics
    /\ NoLoad

\* renderImagingStudy calls the chart functions in this order.
CallCreateDiagnosticGauges ==
    /\ currentStudy = ImagingStudy
    /\ gauges = <<>>
    /\ gauges' = <<createDiagnosticGauges(imgData, DefaultThreshold)>>
    /\ UNCHANGED <<currentStudy, loadVars, imgData, roc, pr, calibration, explorer, accuracyChart, decision,
                   survVars, hrVars, statsVars>>

CallCreateROCCurve ==
    /\ currentStudy = ImagingStudy
    /\ gauges # <<>>
    /\ roc = <<>>
    /\ roc' = <<createROCCurve(imgData)>>
    /\ imgData' = DataAfterCreateROCCurve(imgData)
    /\ UNCHANGED <<currentStudy, loadVars, gauges, pr, calibration, explorer, accuracyChart, decision,
                   survVars, hrVars, statsVars>>

CallCreatePRCurve ==
    /\ currentStudy = ImagingStudy
    /\ roc # <<>>
    /\ pr = <<>>
    /\ pr' = <<createPRCurve(imgData)>>
    /\ imgData' = DataAfterCreatePRCurve(imgData)
    /\ UNCHANGED <<currentStudy, loadVars, gauges, roc, calibration, explorer, accuracyChart, decision,
                   survVars, hrVars, statsVars>>

CallCreateCalibrationPlot ==
    /\ currentStudy = ImagingStudy
    /\ pr # <<>>
    /\ calibration = <<>>
    /\ calibration' = <<createCalibrationPlot(imgData)>>
    /\ UNCHANGED <<currentStudy, loadVars, imgData, gauges, roc, pr, explorer, accuracyChart, decision,
                   survVars, hrVars, statsVars>>

CallCreateThresholdExplorer ==
    /\ currentStudy = ImagingStudy
    /\ calibration # <<>>
    /\ explorer = <<>>
    /\ explorer' = <<updateThresholdExplorer(DefaultThreshold, imgData)>>
    /\ UNCHANGED <<currentStudy, loadVars, imgData, gauges, roc, pr, calibration, accuracyChart, decision,
                   survVars, hrVars, statsVars>>

\* The slider's input listener.
SliderInput(value) ==
    /\ currentStudy = ImagingStudy
    /\ explorer # <<>>
    /\ explorer' = <<updateThresholdExplorer(Num(value, 100), imgData)>>
    /\ UNCHANGED <<currentStudy, loadVars, imgData, gauges, roc, pr, calibration, accuracyChart, decision,
                   survVars, hrVars, statsVars>>

NextDiag ==
    \/ CallCreateDiagnosticGauges
    \/ CallCreateROCCurve
    \/ CallCreatePRCurve
    \/ CallCreateCalibrationPlot
    \/ CallCreateThresholdExplorer
    \/ \E value \in SliderValues : SliderInput(value)

SpecDiag == InitDiag /\ [][NextDiag]_vars

\* createDiagnosticAccuracyChart, which no render function calls, on its own.
InitAccuracy ==
    /\ currentStudy = ImagingStudy
    /\ imgData \in SeqsUpTo(ReadingRecords, MaxObservations)
    /\ gauges = <<>>
    /\ roc = <<>>
    /\ pr = <<>>
    /\ calibration = <<>>
    /\ explorer = <<>>
    /\ accuracyChart = <<>>
    /\ decision = <<>>
    /\ NoSurvival
    /\ NoHazardRatio
    /\ NoStatistics
    /\ NoLoad

CallCreateDiagnosticAccuracyChart ==
    /\ currentStudy = ImagingStudy
    /\ accuracyChart = <<>>
    /\ accuracyChart' = <<createDiagnosticAccuracyChart(imgData)>>
    /\ UNCHANGED <<currentStudy, loadVars, imgData, gauges, roc, pr, calibration, explorer, decision,
                   survVars, hrVars, statsVars>>

NextAccuracy == CallCreateDiagnosticAccuracyChart

SpecAccuracy == InitAccuracy /\ [][NextAccuracy]_vars

\* createDecisionCurve draws from the data alone, whatever was rendered
\* before it.
InitDecision ==
    /\ currentStudy = ImagingStudy
    /\ imgData \in SeqsUpTo(ImagingRecords, MaxObservations)
    /\ gauges = <<>>
    /\ roc = <<>>
    /\ pr = <<>>
    /\ calibration = <<>>
    /\ explorer = <<>>
    /\ accuracyChart = <<>>
    /\ decision = <<>>
    /\ NoSurvival
    /\ NoHazardRatio
    /\ NoStatistics
    /\ NoLoad

CallCreateDecisionCurve ==
    /\ currentStudy = ImagingStudy
    /\ decision = <<>>
    /\ decision' = <<createDecisionCurve(imgData)>>
    /\ UNCHANGED <<currentStudy, loadVars, imgData, gauges, roc, pr, calibration, explorer,
                   accuracyChart, survVars, hrVars, statsVars>>

NextDecision == CallCreateDecisionCurve

SpecDecision == InitDecision /\ [][NextDecision]_vars

----------------------------------------------------------------------------
(* stats.js *)

\* The values of an array element that are not numbers.
Null == [type |-> "null"]
Undefined == [type |-> "undefined"]

\* val !== null && val !== undefined && !isNaN(val)
IsValue(val) == val # Null /\ val # Undefined /\ ~IsNaN(val)

\* arr.filter(val => val !== null && val !== undefined && !isNaN(val))
Filtered(arr) == SelectSeq(arr, IsValue)

\* mean without its early return for an empty array.
meanOfAny(arr) ==
    LET filtered == Filtered(arr)
    IN  Div(Sum(filtered), FromInt(Len(filtered)))

mean(arr) ==
    LET filtered == Filtered(arr)
    IN  IF Len(filtered) = 0 THEN Zero
        ELSE Div(Sum(filtered), FromInt(Len(filtered)))

\* filtered.map(val => Math.pow(val - avg, 2))
SquaredDiffs(filtered, avg) ==
    [i \in DOMAIN filtered |-> Mul(Sub(filtered[i], avg), Sub(filtered[i], avg))]

\* The `variance` of standardDeviation, for a filtered array of two or more.
Variance(filtered) ==
    Div(Sum(SquaredDiffs(filtered, mean(filtered))), FromInt(Len(filtered) - 1))

standardDeviation(arr) ==
    LET filtered == Filtered(arr)
    IN  IF Len(filtered) <= 1 THEN Zero
        ELSE MathSqrt(Variance(filtered))

\* sd * sd for sd = standardDeviation(filtered): the square of the root that
\* standardDeviation takes is the variance itself.
SquaredSD(filtered) == IF Len(filtered) <= 1 THEN Zero ELSE Variance(filtered)

\* sd / Math.sqrt(n) for sd = standardDeviation(filtered) and n its length:
\* the root of the variance over n, with one square root taken.
StandardError(filtered) ==
    MathSqrt(Div(SquaredSD(filtered), FromInt(Len(filtered))))

\* filtered.slice().sort((a, b) => a - b)
InsertAscending(sorted, val) ==
    LET before == SelectSeq(sorted, LAMBDA x : LE(x, val))
        after == SelectSeq(sorted, LAMBDA x : ~LE(x, val))
    IN  before \o <<val>> \o after

RECURSIVE SortAscending(_)
SortAscending(arr) ==
    IF arr = <<>> THEN <<>>
    ELSE InsertAscending(SortAscending(SubSeq(arr, 1, Len(arr) - 1)), arr[Len(arr)])

\* The array `arr` after median returns: filter and slice each make a new
\* array and the sort is applied to the last of them.
ArrAfterMedian(arr) == arr

median(arr) ==
    LET filtered == Filtered(arr)
        sorted == SortAscending(filtered)
        mid == Len(sorted) \div 2
    IN  IF Len(filtered) = 0 THEN Zero
        ELSE IF Len(sorted) % 2 = 0
             THEN Div(Add(sorted[mid], sorted[mid + 1]), FromInt(2))
             ELSE sorted[mid + 1]

confidenceInterval95(arr) ==
    LET filtered == Filtered(arr)
        avg == mean(filtered)
        se == StandardError(filtered)
        margin == Mul(Z95, se)
    IN  IF Len(filtered) = 0
        THEN [mean |-> Zero, lower |-> Zero, upper |-> Zero, se |-> Zero]
        ELSE [mean |-> ToFixed(avg, 2),
              lower |-> ToFixed(Sub(avg, margin), 2),
              upper |-> ToFixed(Add(avg, margin), 2),
              se |-> ToFixed(se, 2)]

calculateDifferenceCI(a1, a2) ==
    LET filtered1 == Filtered(a1)
        filtered2 == Filtered(a2)
        meanDiff == Sub(mean(filtered1), mean(filtered2))
        \* se1 * se1 + se2 * se2, each square being the variance over n
        pooledVar == Add(Div(SquaredSD(filtered1), FromInt(Len(filtered1))),
                         Div(SquaredSD(filtered2), FromInt(Len(filtered2))))
        pooledSE == MathSqrt(pooledVar)
        margin == Mul(Z95, pooledSE)
    IN  IF Len(filtered1) = 0 \/ Len(filtered2) = 0
        THEN [meanDiff |-> Zero, lower |-> Zero, upper |-> Zero, se |-> Zero]
        ELSE [meanDiff |-> ToFixed(meanDiff, 2),
              lower |-> ToFixed(Sub(meanDiff, margin), 2),
              upper |-> ToFixed(Add(meanDiff, margin), 2),
              se |-> ToFixed(pooledSE, 2)]

\* The statistic of tTest.  pooledSE is the square root of pooledVar and the
\* statistic meanDiff / pooledSE is held exactly, as its sign and its square,
\* so that its comparisons and its rounding are those of the exact value.
TStatistic(meanDiff, pooledVar) ==
    IF pooledVar = Zero THEN [sign |-> 0, square |-> Zero]
    ELSE [sign |-> Sign(meanDiff.n), square |-> Div(Mul(meanDiff, meanDiff), pooledVar)]

\* Math.abs(t) < cutoff, for a cutoff above zero.
AbsBelow(t, cutoff) == LT(t.square, Mul(cutoff, cutoff))

\* parseFloat(t.toFixed(digits)): the greatest k with (k - 1/2)^2 <= 10^(2 digits) * t^2
\* is the rounded magnitude in units of 10^-digits.  The product
\* 10^(2 digits) * t^2 is divided out digit group by digit group, so that no
\* intermediate value leaves the integer range.
RootToFixed(t, digits) ==
    LET d == t.square.d
        p == Pow10(digits)
        units == t.square.n \div d
        first == ((t.square.n % d) * p) \div d
        carry == ((t.square.n % d) * p) % d
        whole == units * p * p + first * p + (carry * p) \div d
        rest == (carry * p) % d
        z == IF 4 * rest >= d THEN whole ELSE whole - 1
        s0 == IF z < 0 THEN 0 ELSE ISqrt(z)
        k == IF z < 0 THEN 0 ELSE IF s0 * (s0 + 1) <= z THEN s0 + 1 ELSE s0
    IN  Num(t.sign * k, Pow10(digits))

LowerCutoff == Num(196, 100)
UpperCutoff == Num(258, 100)

\* The buckets of tTest with the last two merged.
TwoBuckets(t) ==
    IF AbsBelow(t, LowerCutoff) THEN ">0.05" ELSE "<0.05"

\* The `pValue` of tTest for the statistic t.
ThreeBuckets(t) ==
    IF AbsBelow(t, LowerCutoff) THEN ">0.05"
    ELSE IF AbsBelow(t, UpperCutoff) THEN "<0.05"
    ELSE "<0.01"

tTest(a1, a2) ==
    LET filtered1 == Filtered(a1)
        filtered2 == Filtered(a2)
        n1 == Len(filtered1)
        n2 == Len(filtered2)
        meanDiff == Sub(mean(filtered1), mean(filtered2))
        v1 == Div(SquaredSD(filtered1), FromInt(n1))
        v2 == Div(SquaredSD(filtered2), FromInt(n2))
        tStatistic == TStatistic(meanDiff, Add(v1, v2))
        df == MathFloor(Div(Mul(Add(v1, v2), Add(v1, v2)),
                            Add(Div(Mul(v1, v1), FromInt(n1 - 1)),
                                Div(Mul(v2, v2), FromInt(n2 - 1)))))
    IN  IF n1 = 0 \/ n2 = 0
        THEN [tStatistic |-> Zero, pValue |-> One, meanDiff |-> Zero]
        ELSE [tStatistic |-> RootToFixed(tStatistic, 3),
              pValue |-> ThreeBuckets(tStatistic),
              meanDiff |-> ToFixed(meanDiff, 2),
              df |-> df]

\* The elements an array passed to stats.js is drawn from.
SampleItems == {Null, Undefined, NaN} \cup {FromInt(v) : v \in 0..MaxValue}

\* The symptom changes of the two groups that tTest compares.
TreatmentChanges == {FromInt(3), FromInt(7)}
PlaceboChanges == {FromInt(0), FromInt(1), FromInt(2), FromInt(3)}

InitStats ==
    /\ currentStudy = ClinicalStudy
    /\ arr1 \in SeqsUpTo(SampleItems, MaxSample)
    /\ arr2 \in SeqsUpTo(SampleItems, MaxSecondSample)
    /\ lastCall = <<>>
    /\ NoSurvival
    /\ NoHazardRatio
    /\ NoDiagnostics
    /\ NoLoad

\* A call of a routine of stats.js; lastCall keeps what it returned.
Returned(fn, result) ==
    /\ currentStudy = ClinicalStudy
    /\ lastCall' = <<[fn |-> fn, result |-> result]>>
    /\ UNCHANGED <<currentStudy, loadVars, arr2, survVars, hrVars, diagVars>>

CallMean ==
    /\ Returned("mean", mean(arr1))
    /\ UNCHANGED arr1

CallStandardDeviation ==
    /\ Returned("standardDeviation", standardDeviation(arr1))
    /\ UNCHANGED arr1

CallMedian ==
    /\ Returned("median", median(arr1))
    /\ arr1' = ArrAfterMedian(arr1)

CallConfidenceInterval95 ==
    /\ Returned("confidenceInterval95", confidenceInterval95(arr1))
    /\ UNCHANGED arr1

CallCalculateDifferenceCI ==
    /\ Returned("calculateDifferenceCI", calculateDifferenceCI(arr1, arr2))
    /\ UNCHANGED arr1

CallTTest ==
    /\ Returned("tTest", tTest(arr1, arr2))
    /\ UNCHANGED arr1

NextStats ==
    \/ CallMean
    \/ CallStandardDeviation
    \/ CallMedian
    \/ CallConfidenceInterval95
    \/ CallCalculateDifferenceCI
    \/ CallTTest

SpecStats == InitStats /\ [][NextStats]_vars

\* The comparison of the two groups: two arrays of numbers.
InitTTest ==
    /\ currentStudy = ClinicalStudy
    /\ arr1 \in SeqsUpTo(TreatmentChanges, MaxTreated)
    /\ arr2 \in SeqsUpTo(PlaceboChanges, MaxPlacebo)
    /\ lastCall = <<>>
    /\ NoSurvival
    /\ NoHazardRatio
    /\ NoDiagnostics
    /\ NoLoad

NextTTest ==
    \/ CallCalculateDifferenceCI
    \/ CallTTest

SpecTTest == InitTTest /\ [][NextTTest]_vars

\* The routines that sort or walk an array they are given, each on the data
\* of the study that calls it.
InitRoutines == InitKM \/ InitDiag \/ InitStats

NextRoutines ==
    \/ CallCalculateKM
    \/ \E restrictionTime \in RestrictionTimes : CallCalculateRMST(restrictionTime)
    \/ CallCreateDiagnosticGauges
    \/ CallCreateROCCurve
    \/ CallCreatePRCurve
    \/ CallMedian

SpecRoutines == InitRoutines /\ [][NextRoutines]_vars

----------------------------------------------------------------------------
(* main.js and data-loader.js: loading the data and switching tabs *)

Protocols == {"file:", "http:"}

\* The promise that loadClinicalData returns; `via` tells what settled it and
\* `parser` whether Papa.parse was invoked.
Resolved(value, via, parser) ==
    [state |-> "resolved", value |-> value, via |-> via, parser |-> parser]

Rejected(via, parser) ==
    [state |-> "rejected", value |-> NoData, via |-> via, parser |-> parser]

Pending ==
    [state |-> "pending", value |-> NoData, via |-> "download", parser |-> TRUE]

\* loadClinicalData up to the return of the promise: the embedded data under
\* file:, otherwise the download is started (a page without the global Papa
\* throws in the executor, which rejects the promise).
loadClinicalData ==
    IF protocol = "file:"
    THEN Resolved(EmbeddedClinicalData, "file:", FALSE)
    ELSE IF papaLoaded THEN Pending
         ELSE Rejected("Papa is not defined", FALSE)

\* What Papa.parse can report to `complete`: parsing errors, no rows, rows
\* whose processing throws, rows that are processed.
PapaResults == {"parse errors", "no rows", "rows throw", "rows"}

PapaComplete(results) ==
    IF results = "rows"
    THEN Resolved(CsvClinicalData, results, TRUE)
    ELSE Resolved(EmbeddedClinicalData, results, TRUE)

\* An `error` callback that rejects instead of falling back.
PapaErrorRejects == Rejected("download failed", TRUE)

PapaError == Resolved(EmbeddedClinicalData, "download failed", TRUE)

\* !data || data.length === 0
Invalid(data) == data = NoData

\* No test at all.
NoLoadGuard == FALSE

\* The input that loadDataAndRenderDashboard tests first.
LoadGuard == appState.isLoading

\* The finally block left out: isLoading keeps its value.
LoadingKept(state) == state

AfterFinally(state) == [state EXCEPT !.isLoading = FALSE]

\* A continuation of a settled promise is queued: it runs before any event.
MicrotaskPending ==
    \E i \in DOMAIN loads : loads[i].clinical.state # "pending"

DataOf(study, state) ==
    CASE study = ClinicalStudy -> state.clinicalData
      [] study = ImagingStudy -> state.imagingData
      [] study = SurvivalStudy -> state.survivalData
      [] study = AdvancedStudy -> state.advancedData

\* renderClinicalStudy, renderImagingStudy, renderSurvivalStudy or
\* renderAdvancedAnalyticsStudy with `data`.  A rendering that throws is taken
\* to throw before createThresholdExplorer; one that does not, and is of the
\* imaging study, stores the data and adds a listener to the slider (counted
\* up to MaxListeners).
Render(study, data, throws) ==
    /\ rendered' = [rendered EXCEPT
                      ![study] = IF throws THEN RenderingThrew ELSE data]
    /\ IF study = ImagingStudy /\ ~throws
       THEN /\ thresholdData' = data
            /\ sliderListeners' = IF sliderListeners < MaxListeners
                                  THEN sliderListeners + 1
                                  ELSE sliderListeners
       ELSE UNCHANGED <<thresholdData, sliderListeners>>

Dispatched(name) ==
    lastEvent' = <<[name |-> name, loading |-> appState.isLoading]>>

\* loadDataAndRenderDashboard up to its await.
loadDataAndRenderDashboard ==
    IF LoadGuard
    THEN UNCHANGED <<appState, overlayHidden, loads>>
    ELSE /\ overlayHidden' = FALSE
         /\ appState' = [appState EXCEPT !.isLoading = TRUE,
                                         !.hasError = FALSE,
                                         !.errorMessage = ""]
         /\ loads' = Append(loads, [clinical |-> loadClinicalData])

\* loadDataAndRenderDashboard from its await on, for the i-th waiting call.
ResumeLoadAt(i, renderThrows) ==
    LET clinical == loads[i].clinical
        rejected == clinical.state = "rejected"
        invalid == ~rejected /\ Invalid(clinical.value)
        stored == [appState EXCEPT !.clinicalData = clinical.value,
                                   !.imagingData = ImagingStudyData,
                                   !.survivalData = SurvivalStudyData,
                                   !.advancedData = AdvancedAnalyticsData]
        renders == ~rejected /\ ~invalid /\ currentStudy \in Studies
        threw == renders /\ renderThrows
        afterTry == IF rejected \/ invalid THEN appState ELSE stored
        message == IF rejected THEN clinical.via
                   ELSE IF invalid THEN "No clinical data loaded"
                   ELSE "rendering failed"
        afterCatch == IF rejected \/ invalid \/ threw
                      THEN [afterTry EXCEPT !.hasError = TRUE,
                                            !.errorMessage = message]
                      ELSE afterTry
    IN  /\ clinical.state # "pending"
        /\ appState' = AfterFinally(afterCatch)
        /\ overlayHidden' = TRUE
        /\ loads' = SubSeq(loads, 1, i - 1) \o SubSeq(loads, i + 1, Len(loads))
        /\ IF renders
           THEN Render(currentStudy, DataOf(currentStudy, stored), renderThrows)
           ELSE UNCHANGED <<rendered, thresholdData, sliderListeners>>

InitLoad ==
    /\ currentStudy = ClinicalStudy
    /\ protocol \in Protocols
    /\ papaLoaded \in BOOLEAN
    /\ overlayHidden \in BOOLEAN
    /\ PageNotStarted
    /\ NoSurvival
    /\ NoHazardRatio
    /\ NoDiagnostics
    /\ NoStatistics

DOMContentLoaded ==
    /\ ~initialized
    /\ initialized' = TRUE
    /\ loadDataAndRenderDashboard
    /\ Dispatched("DOMContentLoaded")
    /\ UNCHANGED <<currentStudy, protocol, papaLoaded, rendered,
                   sliderListeners, thresholdData, sliderUpdate,
                   survVars, hrVars, diagVars, statsVars>>

LoadDataClick ==
    /\ initialized
    /\ ~MicrotaskPending
    /\ loadDataAndRenderDashboard
    /\ Dispatched("click load-data-btn")
    /\ UNCHANGED <<currentStudy, protocol, papaLoaded, initialized, rendered,
                   sliderListeners, thresholdData, sliderUpdate,
                   survVars, hrVars, diagVars, statsVars>>

\* A callback of Papa.parse settles the promise of the download under way.
PapaSettles(settled) ==
    /\ ~MicrotaskPending
    /\ \E i \in DOMAIN loads :
         /\ loads[i].clinical.state = "pending"
         /\ loads' = [loads EXCEPT ![i].clinical = settled]
    /\ UNCHANGED <<currentStudy, protocol, papaLoaded, initialized, appState,
                   overlayHidden, rendered, sliderListeners, thresholdData,
                   sliderUpdate, survVars, hrVars, diagVars, statsVars>>

PapaCompleteCallback ==
    /\ \E results \in PapaResults : PapaSettles(PapaComplete(results))
    /\ Dispatched("complete")

PapaErrorCallback ==
    /\ PapaSettles(PapaError)
    /\ Dispatched("error")

ResumeLoad ==
    /\ \E i \in DOMAIN loads : \E renderThrows \in BOOLEAN :
         ResumeLoadAt(i, renderThrows)
    /\ UNCHANGED <<currentStudy, protocol, papaLoaded, initialized,
                   sliderUpdate, lastEvent,
                   survVars, hrVars, diagVars, statsVars>>

handleTabSwitch(studyId) ==
    /\ initialized
    /\ ~MicrotaskPending
    /\ currentStudy' = studyId
    /\ IF studyId # Home /\ DataOf(studyId, appState) # NoData
       THEN \E renderThrows \in BOOLEAN :
                Render(studyId, DataOf(studyId, appState), renderThrows)
       ELSE UNCHANGED <<rendered, thresholdData, sliderListeners>>
    /\ Dispatched("click tab-btn")
    /\ UNCHANGED <<protocol, papaLoaded, initialized, appState, overlayHidden,
                   loads, sliderUpdate, survVars, hrVars, diagVars, statsVars>>

\* An input event on the threshold slider: every listener attached calls
\* updateThresholdExplorer with window._thresholdData.
SliderInputEvent ==
    /\ initialized
    /\ ~MicrotaskPending
    /\ sliderUpdate' = <<[calls |-> sliderListeners, data |-> thresholdData]>>
    /\ Dispatched("input threshold-slider")
    /\ UNCHANGED <<currentStudy, protocol, papaLoaded, initialized, appState,
                   overlayHidden, loads, rendered, sliderListeners,
                   thresholdData, survVars, hrVars, diagVars, statsVars>>

NextLoad ==
    \/ DOMContentLoaded
    \/ LoadDataClick
    \/ PapaCompleteCallback
    \/ PapaErrorCallback
    \/ ResumeLoad
    \/ \E studyId \in Studies \cup {Home} : handleTabSwitch(studyId)
    \/ SliderInputEvent

SpecLoad == InitLoad /\ [][NextLoad]_vars

\* The callbacks of a download that was started are called, and a queued
\* continuation runs.
SpecLoadFair ==
    /\ SpecLoad
    /\ WF_vars(PapaCompleteCallback \/ PapaErrorCallback)
    /\ WF_vars(ResumeLoad)

----------------------------------------------------------------------------
(* Properties of calculateKM and calculateRMST *)

KMDone == kmData # <<>>

\* C1: every point of the curve returned by calculateKM has defined bounds
\* with 0 <= lower <= survival <= upper <= 1.
C1_CIBandOrdered ==
    \A i \in DOMAIN kmData :
        /\ LE(Zero, kmData[i].lower)
        /\ LE(kmData[i].lower, kmData[i].survival)
        /\ LE(kmData[i].survival, kmData[i].upper)
        /\ LE(kmData[i].upper, One)

\* The area the RMST is specified to be: the trapezoids between consecutive
\* points, the last one clipped at restrictionTime ...
RECURSIVE TrapezoidsFrom(_, _, _)
TrapezoidsFrom(km, restrictionTime, i) ==
    IF i >= Len(km) THEN Zero
    ELSE LET upperTime == IntMin(km[i + 1].time, restrictionTime)
             area == IF km[i].time < restrictionTime
                     THEN Mul(FromInt(upperTime - km[i].time),
                              Div(Add(km[i].survival, km[i + 1].survival), FromInt(2)))
                     ELSE Zero
         IN  Add(area, TrapezoidsFrom(km, restrictionTime, i + 1))

\* ... plus the flat extrapolation, only when the last point precedes
\* restrictionTime.
SpecifiedRMST(km, restrictionTime) ==
    LET last == km[Len(km)]
    IN  Add(TrapezoidsFrom(km, restrictionTime, 1),
            IF last.time < restrictionTime
            THEN Mul(FromInt(restrictionTime - last.time), last.survival)
            ELSE Zero)

\* C2: calculateRMST is the sum of the clipped trapezoids plus the flat
\* extrapolation term, the latter added iff the last point precedes
\* restrictionTime.
C2_RMSTIsClippedTrapezoidSum ==
    \A r \in rmstResults : r.rmst = SpecifiedRMST(kmData, r.restrictionTime)

\* C3: for one curve, calculateRMST is non-decreasing in restrictionTime.
C3_RMSTNonDecreasing ==
    \A r1, r2 \in rmstResults :
        r1.restrictionTime <= r2.restrictionTime => LE(r1.rmst, r2.rmst)

\* C4: the curve starts at (0, 1, 1, 1, atRisk = N, events = 0) and its times
\* increase strictly from one point to the next.
C4_StartsAtOneStrictlyIncreasing ==
    KMDone =>
        /\ kmData[1] = KMInitialPoint(Len(survData))
        /\ \A i \in 1..(Len(kmData) - 1) : kmData[i].time < kmData[i + 1].time

EventsAt(data, u) == Cardinality({i \in DOMAIN data :
                                     data[i].time_months = u /\ data[i].event = 1})

AtRiskAt(data, u) == Cardinality({i \in DOMAIN data : data[i].time_months >= u})

\* The product of (1 - eventsAt(u)/atRisk(u)) over the times u of U.
RECURSIVE ProductLimit(_, _)
ProductLimit(data, U) ==
    IF U = {} THEN One
    ELSE LET u == CHOOSE x \in U : TRUE
         IN  Mul(Sub(One, Div(FromInt(EventsAt(data, u)), FromInt(AtRiskAt(data, u)))),
                 ProductLimit(data, U \ {u}))

EventTimesUpTo(data, t) ==
    {u \in {data[i].time_months : i \in DOMAIN data} :
        u <= t /\ EventsAt(data, u) > 0}

\* C5: at every point, survival is the product-limit estimate over the event
\* times up to the point's time; a censoring-only time keeps the previous value.
C5_SurvivalIsProductLimit ==
    \A i \in DOMAIN kmData :
        /\ kmData[i].survival =
               ProductLimit(survData, EventTimesUpTo(survData, kmData[i].time))
        /\ (i > 1 /\ kmData[i].events = 0) =>
               kmData[i].survival = kmData[i - 1].survival

\* C6: along the curve survival never increases, and every survival value
\* lies in [0, 1].
C6_SurvivalNonIncreasing ==
    \A i \in DOMAIN kmData :
        /\ LE(Zero, kmData[i].survival)
        /\ LE(kmData[i].survival, One)
        /\ i > 1 => LE(kmData[i].survival, kmData[i - 1].survival)

\* A curve with a drop at one time and a censoring-only time after it.
C6_Witness ==
    \E i \in DOMAIN kmData :
        /\ i > 1
        /\ i < Len(kmData)
        /\ LT(kmData[i].survival, kmData[i - 1].survival)
        /\ LT(Zero, kmData[i].survival)
        /\ kmData[i + 1].events = 0

\* C7: when an arm has no events (or is empty), the hazard ratio and its
\* interval reach the forest plot marked as undefined, never as Infinity or NaN.
IsPlottable(x) == IsFinite(x)

HRDegenerate ==
    \/ Len(SelectSeq(armA, LAMBDA d : d.event = 1)) = 0
    \/ Len(SelectSeq(armB, LAMBDA d : d.event = 1)) = 0

C7_DegenerateHRSignalled ==
    (forestTrace # <<>> /\ HRDegenerate) =>
        /\ IsPlottable(hrResult[1].hr)
        /\ IsPlottable(hrResult[1].ciLower)
        /\ IsPlottable(hrResult[1].ciUpper)
        /\ IsPlottable(forestTrace[1].x)

----------------------------------------------------------------------------
(* Properties of the diagnostic-classifier metrics *)

\* A ratio metric over these counts is undefined exactly when its
\* denominator is 0; the undefined sentinel is NaN.
UndefinedWhenNoDenominator(metric, denominator) ==
    denominator = 0 => IsNaN(metric)

\* C8: a ratio metric whose denominator is 0 is shown as the undefined
\* sentinel, never as 0, by updateThresholdExplorer, createDiagnosticGauges
\* and createDiagnosticAccuracyChart.
C8_ZeroDenominatorIsSentinel ==
    /\ \A i \in DOMAIN explorer :
         LET m == explorer[i]
             c == m.counts
         IN  /\ UndefinedWhenNoDenominator(m.sensitivity, c.tp + c.fn)
             /\ UndefinedWhenNoDenominator(m.specificity, c.tn + c.fp)
             /\ UndefinedWhenNoDenominator(m.ppv, c.tp + c.fp)
             /\ UndefinedWhenNoDenominator(m.npv, c.tn + c.fn)
    /\ \A i \in DOMAIN gauges :
         LET m == gauges[i]
             c == m.counts
         IN  /\ UndefinedWhenNoDenominator(m.sensitivity, c.tp + c.fn)
             /\ UndefinedWhenNoDenominator(m.specificity, c.tn + c.fp)
    /\ \A i \in DOMAIN accuracyChart :
         LET m == accuracyChart[i]
             c == m.counts
         IN  /\ UndefinedWhenNoDenominator(m.sensitivity, c.tp + c.fn)
             /\ UndefinedWhenNoDenominator(m.specificity, c.tn + c.fp)
             /\ UndefinedWhenNoDenominator(m.ppv, c.tp + c.fp)
             /\ UndefinedWhenNoDenominator(m.npv, c.tn + c.fn)

\* The arrays holding the same records as `data`, in every order.
Reorderings(data) ==
    LET n == Len(data)
        Bijections == {f \in [1..n -> 1..n] : \A i, j \in 1..n : f[i] = f[j] => i = j}
    IN  {[i \in 1..n |-> data[f[i]]] : f \in Bijections}

\* C9: the AUC of createROCCurve is the same for every order of the records.
C9_AUCOrderIndependent ==
    \A i \in DOMAIN roc :
        \A other \in Reorderings(imgData) : createROCCurve(other).auc = roc[i].auc

\* C10: the AUC of createROCCurve is a defined number in [0, 1].
C10_AUCInUnitInterval ==
    \A i \in DOMAIN roc :
        /\ IsFinite(roc[i].auc)
        /\ LE(Zero, roc[i].auc)
        /\ LE(roc[i].auc, One)

----------------------------------------------------------------------------
(* Properties of createPRCurve *)

InUnitInterval(x) == LE(Zero, x) /\ LE(x, One)

\* C11: for every collection of records, one without positives included, the
\* average precision lies in [0, 1] and every point of the precision-recall
\* curve has a defined precision and a defined recall, both in [0, 1].
C11_PRCurveDefinedInUnitInterval ==
    pr # <<>> =>
        /\ InUnitInterval(pr[1].ap)
        /\ \A i \in DOMAIN pr[1].prPoints :
               /\ InUnitInterval(pr[1].prPoints[i].precision)
               /\ InUnitInterval(pr[1].prPoints[i].recall)

----------------------------------------------------------------------------
(* Properties of findMedian *)

\* The survival of the curve km never drops strictly below 0.5.
NeverBelowHalf(km) == \A i \in DOMAIN km : ~LT(km[i].survival, Num(1, 2))

\* What findMedian returns for the curves of the model that do cross 0.5.
ReachedMedians ==
    {findMedian(calculateKM(data)) :
        data \in {d \in SeqsUpTo(SurvRecords, MaxRecords) :
                      ~NeverBelowHalf(calculateKM(d))}}

\* C12: when the survival of the curve never drops strictly below 0.5, what
\* findMedian returns is told apart from a median that was reached: it is
\* not a value findMedian returns for a curve that does cross 0.5.
C12_NotReachedIsDistinguishable ==
    (medianTime # <<>> /\ NeverBelowHalf(kmData)) => medianTime[1] \notin ReachedMedians

\* The first point of the curve km whose survival is strictly below 0.5.
FirstCrossing(km) ==
    CHOOSE i \in DOMAIN km :
        /\ LT(km[i].survival, Num(1, 2))
        /\ \A j \in 1..(i - 1) : ~LT(km[j].survival, Num(1, 2))

\* C13: when the survival drops strictly below 0.5, findMedian returns the
\* midpoint (t_prev + t_cross) / 2 of the first point with survival < 0.5
\* and the point before it; a point with survival exactly 0.5 is no crossing.
C13_MedianIsMidpointOfCrossing ==
    (medianTime # <<>> /\ ~NeverBelowHalf(kmData)) =>
        LET i == FirstCrossing(kmData)
        IN  /\ i > 1
            /\ medianTime[1] = Num(kmData[i - 1].time + kmData[i].time, 2)

\* A median was computed on a curve that passes through 0.5 exactly before
\* it drops below.
C13_Witness ==
    /\ medianTime # <<>>
    /\ ~NeverBelowHalf(kmData)
    /\ \E j \in 1..(FirstCrossing(kmData) - 1) : kmData[j].survival = Num(1, 2)

----------------------------------------------------------------------------
(* Properties of stats.js *)

\* tTest has returned for two samples that are not empty once filtered.
TTestOfSamples ==
    /\ lastCall # <<>>
    /\ lastCall[1].fn = "tTest"
    /\ Filtered(arr1) # <<>>
    /\ Filtered(arr2) # <<>>

Magnitude(x) == IF x.n < 0 THEN Neg(x) ELSE x

\* C14 as stated: for samples that are not empty the p-value bucket is
\* '>0.05' iff |t| < 1.96, '<0.05' iff 1.96 <= |t| < 2.58 and '<0.01' iff
\* |t| >= 2.58, t being the tStatistic that tTest reports; identical samples
\* give tStatistic 0 and pValue '>0.05'.
C14_BucketOfReportedStatistic ==
    TTestOfSamples =>
        LET result == lastCall[1].result
            absT == Magnitude(result.tStatistic)
        IN  /\ result.pValue = ">0.05" <=> LT(absT, Num(196, 100))
            /\ result.pValue = "<0.05" <=>
                   (LE(Num(196, 100), absT) /\ LT(absT, Num(258, 100)))
            /\ result.pValue = "<0.01" <=> LE(Num(258, 100), absT)
            /\ arr1 = arr2 => (result.tStatistic = Zero /\ result.pValue = ">0.05")

\* The square of the Welch statistic meanDiff / pooledSE of two samples, 0
\* when pooledSE is 0.
WelchSquare(a1, a2) ==
    LET meanDiff == Sub(mean(a1), mean(a2))
        pooledVar == Add(Div(SquaredSD(a1), FromInt(Len(a1))),
                         Div(SquaredSD(a2), FromInt(Len(a2))))
    IN  IF pooledVar = Zero THEN Zero ELSE Div(Mul(meanDiff, meanDiff), pooledVar)

\* C14, amended: for samples that are not empty the p-value bucket is
\* '>0.05' iff |t| < 1.96, '<0.05' iff 1.96 <= |t| < 2.58 and '<0.01' iff
\* |t| >= 2.58, t being the Welch statistic meanDiff / pooledSE (0 when
\* pooledSE is 0) before it is rounded to three decimals for the report;
\* identical samples give tStatistic 0 and pValue '>0.05'.
C14_BucketOfExactStatistic ==
    TTestOfSamples =>
        LET result == lastCall[1].result
            tSquare == WelchSquare(Filtered(arr1), Filtered(arr2))
            lower == Num(196 * 196, 100 * 100)
            upper == Num(258 * 258, 100 * 100)
        IN  /\ result.pValue = ">0.05" <=> LT(tSquare, lower)
            /\ result.pValue = "<0.05" <=> (LE(lower, tSquare) /\ LT(tSquare, upper))
            /\ result.pValue = "<0.01" <=> LE(upper, tSquare)
            /\ arr1 = arr2 => (result.tStatistic = Zero /\ result.pValue = ">0.05")

\* tTest reports a statistic of magnitude 1.96 with the bucket '>0.05': the
\* exact statistic is below 1.96 and rounds to it.
C14_Witness ==
    /\ TTestOfSamples
    /\ Magnitude(lastCall[1].result.tStatistic) = Num(196, 100)
    /\ lastCall[1].result.pValue = ">0.05"

----------------------------------------------------------------------------
(* Properties of the confusion counts, the ROC curve and the calibration plot *)

\* The number of records of `data` with the given label whose score is at
\* or above the threshold t (atOrAbove) or strictly below it.
CountOf(data, label, atOrAbove, t) ==
    Cardinality({i \in DOMAIN data :
        /\ data[i].disease_status = label
        /\ IF atOrAbove THEN LE(t, data[i].predicted_probability)
           ELSE LT(data[i].predicted_probability, t)})

LabelCount(data, label) ==
    Cardinality({i \in DOMAIN data : data[i].disease_status = label})

CountsAsSpecified(c, data, t) ==
    /\ c.tp = CountOf(data, "Positive", TRUE, t)
    /\ c.fn = CountOf(data, "Positive", FALSE, t)
    /\ c.fp = CountOf(data, "Negative", TRUE, t)
    /\ c.tn = CountOf(data, "Negative", FALSE, t)
    /\ c.tp + c.fn = LabelCount(data, "Positive")
    /\ c.fp + c.tn = LabelCount(data, "Negative")
    /\ c.tp + c.fp + c.tn + c.fn = Len(data)

\* C15: at every threshold t the confusion counts of createDiagnosticGauges
\* and of updateThresholdExplorer are TP = |{positive, score >= t}|,
\* FN = |{positive, score < t}|, FP = |{negative, score >= t}| and
\* TN = |{negative, score < t}|, so TP + FN is the number of positives,
\* FP + TN the number of negatives and the four sum to the number of records.
C15_ConfusionCounts ==
    /\ gauges # <<>> => CountsAsSpecified(gauges[1].counts, imgData, Num(1, 2))
    /\ explorer # <<>> =>
           CountsAsSpecified(explorer[1].counts, imgData, explorer[1].threshold)

\* The slider was moved to a threshold that a positive record's score equals
\* and another positive record's score is below.
C15_Witness ==
    /\ explorer # <<>>
    /\ explorer[1].threshold # Num(1, 2)
    /\ \E i \in DOMAIN imgData :
           /\ imgData[i].disease_status = "Positive"
           /\ imgData[i].predicted_probability = explorer[1].threshold
    /\ explorer[1].counts.fn > 0

\* Every positive record has score 1, every negative record score 0, and
\* there is at least one of each.
PerfectlyDiscriminating(data) ==
    /\ \E i \in DOMAIN data : data[i].disease_status = "Positive"
    /\ \E i \in DOMAIN data : data[i].disease_status = "Negative"
    /\ \A i \in DOMAIN data :
           data[i].predicted_probability =
               (IF data[i].disease_status = "Positive" THEN One ELSE Zero)

\* C16: for a perfectly discriminating classifier, in whatever order the
\* records are given, createROCCurve yields AUC = 1 and an optimal point
\* with Youden's J = 1, TPR 1 and FPR 0.
C16_PerfectClassifier ==
    (roc # <<>> /\ PerfectlyDiscriminating(imgData)) =>
        /\ roc[1].auc = One
        /\ roc[1].maxJ = One
        /\ roc[1].optimalPoint.tpr = One
        /\ roc[1].optimalPoint.fpr = Zero

\* The ROC curve was computed for a perfectly discriminating classifier
\* whose records were given with a negative before a positive.
C16_Witness ==
    /\ roc # <<>>
    /\ PerfectlyDiscriminating(imgData)
    /\ \E i, k \in DOMAIN imgData :
           /\ i < k
           /\ imgData[i].disease_status = "Negative"
           /\ imgData[k].disease_status = "Positive"

YoudenJ(point) == Sub(point.tpr, point.fpr)

\* C17: the optimal point of createROCCurve has the greatest J = TPR - FPR
\* of all the ROC points, and it is the earliest point of the sweep, the
\* (0,0) point first, that attains it.
C17_OptimalPointMaximizesJ ==
    roc # <<>> =>
        LET rocPoints == roc[1].rocPoints
        IN  \E k \in DOMAIN rocPoints :
                /\ roc[1].optimalPoint = rocPoints[k]
                /\ roc[1].maxJ = YoudenJ(rocPoints[k])
                /\ \A i \in DOMAIN rocPoints : LE(YoudenJ(rocPoints[i]), roc[1].maxJ)
                /\ \A i \in 1..(k - 1) : YoudenJ(rocPoints[i]) # roc[1].maxJ

\* The score s belongs to bin i of the ten: i/10 <= s < (i+1)/10, and the
\* score 1 to the last.
InBin(s, i) ==
    \/ LE(Num(i, 10), s) /\ LT(s, Num(i + 1, 10))
    \/ i = 9 /\ s = One

ScoresIn(data, i) ==
    LET scores == [k \in DOMAIN data |-> data[k].predicted_probability]
    IN  SelectSeq(scores, LAMBDA x : InBin(x, i))

RECURSIVE TotalCount(_)
TotalCount(points) ==
    IF points = <<>> THEN 0 ELSE Head(points).count + TotalCount(Tail(points))

\* C18: createCalibrationPlot puts every record in exactly one of ten bins,
\* bin i holding exactly the scores with i/10 <= score < (i+1)/10 and the
\* score 1 going to the last bin; a point is emitted for a bin iff the bin
\* is not empty, the emitted counts sum to the number of records and every
\* observed fraction lies in [0, 1].
C18_CalibrationBins ==
    calibration # <<>> =>
        LET bins == calibration[1].bins
            points == calibration[1].calibrationPoints
            filled == SelectSeq(bins, LAMBDA b : b.predicted # <<>>)
        IN  /\ Len(bins) = 10
            /\ \A i \in 0..9 : bins[i + 1].predicted = ScoresIn(imgData, i)
            /\ \A k \in DOMAIN imgData :
                   Cardinality({i \in 0..9 :
                       InBin(imgData[k].predicted_probability, i)}) = 1
            /\ Len(points) = Len(filled)
            /\ \A k \in DOMAIN points :
                   /\ points[k].count = Len(filled[k].predicted)
                   /\ InUnitInterval(points[k].observed)
            /\ TotalCount(points) = Len(imgData)

\* The plot was computed for records of which one has the score 1 and
\* another a lower score: two bins are filled, the last among them.
C18_Witness ==
    /\ calibration # <<>>
    /\ \E i, k \in DOMAIN imgData :
           /\ imgData[i].predicted_probability = One
           /\ LT(imgData[k].predicted_probability, One)
    /\ Len(calibration[1].calibrationPoints) >= 2

----------------------------------------------------------------------------
(* Properties of the routines on empty input, and of their arguments *)

ZeroInterval == [mean |-> Zero, lower |-> Zero, upper |-> Zero, se |-> Zero]

ZeroDifference == [meanDiff |-> Zero, lower |-> Zero, upper |-> Zero, se |-> Zero]

\* C19: a routine of stats.js whose input is empty once null, undefined and
\* NaN are filtered out returns its zero result: mean 0, median 0,
\* standardDeviation 0 (for a single value too), confidenceInterval95 all
\* zeros, and calculateDifferenceCI all zeros when either sample is empty.
C19_EmptyInputGivesZero ==
    lastCall # <<>> =>
        LET fn == lastCall[1].fn
            result == lastCall[1].result
            n1 == Len(Filtered(arr1))
            n2 == Len(Filtered(arr2))
        IN  /\ (fn = "mean" /\ n1 = 0) => result = Zero
            /\ (fn = "median" /\ n1 = 0) => result = Zero
            /\ (fn = "standardDeviation" /\ n1 <= 1) => result = Zero
            /\ (fn = "confidenceInterval95" /\ n1 = 0) => result = ZeroInterval
            /\ (fn = "calculateDifferenceCI" /\ (n1 = 0 \/ n2 = 0)) =>
                   result = ZeroDifference

\* confidenceInterval95 has returned for an array that holds elements, none
\* of which passes the filter.
C19_Witness ==
    /\ lastCall # <<>>
    /\ lastCall[1].fn = "confidenceInterval95"
    /\ arr1 # <<>>
    /\ Filtered(arr1) = <<>>

\* C20: no routine changes the array it is given: after median,
\* calculateKM, createROCCurve, createPRCurve or calculateRMST returns, the
\* array has the same records, with the same fields, in the same order.
C20_InputsNotMutated ==
    [][/\ survData' = survData
       /\ imgData' = imgData
       /\ arr1' = arr1
       /\ kmData # <<>> => kmData' = kmData]_vars

\* calculateKM has returned for records that were not given in time order.
C20_Witness ==
    /\ kmData # <<>>
    /\ \E i, k \in DOMAIN survData :
           i < k /\ survData[i].time_months > survData[k].time_months

----------------------------------------------------------------------------
(* Further properties of calculateRMST and of the two AUC computations *)

\* C21: for every curve that calculateKM produces, calculateRMST(curve, 0)
\* is 0.
C21_RMSTAtZeroIsZero ==
    \A r \in rmstResults : r.restrictionTime = 0 => r.rmst = Zero

\* calculateRMST was called with restrictionTime 0 on a curve that has a
\* point after time 0.
C21_Witness ==
    /\ \E r \in rmstResults : r.restrictionTime = 0
    /\ \E i \in DOMAIN kmData : kmData[i].time > 0

\* C28: for every collection with at least one positive and one negative
\* record, the AUC that createDiagnosticGauges shows (the step sum of
\* tpr * (fpr - prevFpr) over the descending-score sweep) equals the AUC that
\* createROCCurve computes (the trapezoidal sum over the same sweep).
C28_GaugeAUCEqualsROCAUC ==
    (/\ gauges # <<>>
     /\ roc # <<>>
     /\ \E i \in DOMAIN imgData : imgData[i].disease_status = "Positive"
     /\ \E i \in DOMAIN imgData : imgData[i].disease_status = "Negative")
        => gauges[1].auc = roc[1].auc

\* Both were computed for records of both classes, the AUC being strictly
\* between 0 and 1.
C28_Witness ==
    /\ gauges # <<>>
    /\ roc # <<>>
    /\ \E i \in DOMAIN imgData : imgData[i].disease_status = "Positive"
    /\ \E i \in DOMAIN imgData : imgData[i].disease_status = "Negative"
    /\ LT(Zero, roc[1].auc)
    /\ LT(roc[1].auc, One)

(***************************************************************************)
(* The type of the p-value that tTest returns                              *)
(***************************************************************************)

\* The printed form of a value tells a string from a number, which TLC
\* refuses to compare with each other.
BucketStrings == {">0.05", "<0.05", "<0.01"}

\* C30: for every pair of input arrays, also when one of them is empty after
\* filtering, the pValue that tTest returns is one of the three bucket
\* strings ">0.05", "<0.05" and "<0.01", never a value of another type.
C30_PValueIsBucketString ==
    (lastCall # <<>> /\ lastCall[1].fn = "tTest") =>
        ToString(lastCall[1].result.pValue)
            \in {ToString(bucket) : bucket \in BucketStrings}

(***************************************************************************)
(* The decision curve                                                      *)
(***************************************************************************)

\* The records of data with the given label and a score of at least t.
TreatedCount(data, label, t) ==
    Cardinality({i \in DOMAIN data :
                    /\ data[i].disease_status = label
                    /\ LE(t, data[i].predicted_probability)})

\* TP/n - (FP/n) * t/(1-t) over the common denominator n * (1 - t), for
\* t = t.n / t.d strictly between 0 and 1 and n > 0.
NetBenefitNumerator(tp, fp, t) == tp * (t.d - t.n) - fp * t.n

ClampedNetBenefit(tp, fp, n, t) ==
    LET numerator == NetBenefitNumerator(tp, fp, t)
    IN  Num(IF numerator < 0 THEN 0 ELSE numerator, n * (t.d - t.n))

\* C22: at every threshold t of the decision-curve grid, all of them strictly
\* between 0 and 1, the model's net benefit is max(0, TP/n - (FP/n) * t/(1-t)),
\* the treat-all net benefit is max(0, prevalence - (1 - prevalence) * t/(1-t))
\* and treat-none is 0; so no net benefit plotted is negative.
C22_DecisionCurveNetBenefit ==
    decision # <<>> =>
        LET d == decision[1]
            n == Len(imgData)
            positives == LabelCount(imgData, "Positive")
        IN  /\ Len(d.modelNetBenefit) = Len(d.thresholds)
            /\ Len(d.treatAllNetBenefit) = Len(d.thresholds)
            /\ Len(d.treatNoneNetBenefit) = Len(d.thresholds)
            /\ \A i \in DOMAIN d.thresholds :
                 LET t == d.thresholds[i]
                 IN  /\ LT(Zero, t) /\ LT(t, One)
                     /\ d.treatNoneNetBenefit[i] = Zero
                     /\ ~LT(d.modelNetBenefit[i], Zero)
                     /\ ~LT(d.treatAllNetBenefit[i], Zero)
                     /\ n > 0 =>
                         /\ d.modelNetBenefit[i] =
                                ClampedNetBenefit(
                                    TreatedCount(imgData, "Positive", t),
                                    TreatedCount(imgData, "Negative", t), n, t)
                         /\ d.treatAllNetBenefit[i] =
                                ClampedNetBenefit(positives, n - positives, n, t)

\* A curve was drawn whose model net benefit is positive at one threshold and
\* raised to 0 at another.
C22_Witness ==
    /\ decision # <<>>
    /\ \E i \in DOMAIN decision[1].thresholds :
         LT(Zero, decision[1].modelNetBenefit[i])
    /\ \E i \in DOMAIN decision[1].thresholds :
         LET t == decision[1].thresholds[i]
         IN  NetBenefitNumerator(TreatedCount(imgData, "Positive", t),
                                 TreatedCount(imgData, "Negative", t), t) < 0

----------------------------------------------------------------------------
(* Properties of the load and of the tabs *)

LoadEvents == {"DOMContentLoaded", "click load-data-btn"}

\* The step is a call of loadDataAndRenderDashboard made while
\* appState.isLoading was true.
CallWhileLoading ==
    /\ lastEvent' # lastEvent
    /\ lastEvent'[1].name \in LoadEvents
    /\ lastEvent'[1].loading

\* C23: at most one data load is in flight at any time: a call of
\* loadDataAndRenderDashboard made while appState.isLoading is true, from the
\* DOMContentLoaded listener or a click on Load Data, returns without
\* invoking a loader and without changing appState.
C23_SingleLoadInFlight ==
    /\ [](Len(loads) <= 1)
    /\ [][CallWhileLoading =>
            UNCHANGED <<appState, loads, overlayHidden, rendered>>]_vars

\* Load Data was clicked while a download was under way.
C23_Witness ==
    /\ lastEvent # <<>>
    /\ lastEvent[1].name = "click load-data-btn"
    /\ lastEvent[1].loading
    /\ Len(loads) = 1
    /\ loads[1].clinical.state = "pending"

LoadFinished == ~appState.isLoading /\ overlayHidden

\* C24: every load that starts finishes with appState.isLoading = false and
\* the overlay hidden, whether the loaders resolve, one rejects, or the
\* rendering throws; a click on Load Data can then start a new load.
C24_LoadFinishes ==
    /\ appState.isLoading ~> LoadFinished
    /\ []((initialized /\ LoadFinished /\ ~MicrotaskPending) =>
              ENABLED (LoadDataClick /\ appState'.isLoading))

\* A load has finished with an error.
C24_Witness ==
    /\ initialized
    /\ LoadFinished
    /\ appState.hasError
    /\ loads = <<>>

\* The cases in which loadClinicalData falls back to the embedded data.
FallbackCases ==
    {"file:", "download failed", "parse errors", "no rows", "rows throw"}

\* C25: whenever the page runs from the file: protocol, the download fails,
\* the parse reports errors, the CSV has no rows or processing its rows
\* throws, the promise of loadClinicalData resolves with the enriched embedded
\* data and is not rejected; under file: the parser is never invoked.
C25_FallbackToEmbeddedData ==
    \A i \in DOMAIN loads :
        LET promise == loads[i].clinical
        IN  /\ promise.via \in FallbackCases =>
                   /\ promise.state = "resolved"
                   /\ promise.value = EmbeddedClinicalData
            /\ protocol = "file:" => ~promise.parser

\* The download failed and the promise is settled.
C25_Witness ==
    \E i \in DOMAIN loads :
        /\ loads[i].clinical.via = "download failed"
        /\ loads[i].clinical.state # "pending"

DatasetsLoaded == \A study \in Studies : DataOf(study, appState) # NoData

\* C26: in every state where the datasets are loaded and a study tab k in
\* 1..4 is selected, study k has been rendered from the loaded data.
C26_SelectedStudyIsRendered ==
    \A study \in Studies :
        (DatasetsLoaded /\ currentStudy = study) =>
            rendered[study] = DataOf(study, appState)

\* C27: a failed load never installs data: whenever
\* loadDataAndRenderDashboard finishes with appState.hasError = true, the four
\* data fields of appState have the values they had before the call.
C27_FailedLoadInstallsNothing ==
    [][(appState.isLoading /\ ~appState'.isLoading /\ appState'.hasError) =>
          /\ appState'.clinicalData = appState.clinicalData
          /\ appState'.imagingData = appState.imagingData
          /\ appState'.survivalData = appState.survivalData
          /\ appState'.advancedData = appState.advancedData]_vars

\* C29: however many times the imaging study has been rendered, one input
\* event on the threshold slider triggers exactly one call of
\* updateThresholdExplorer, with the data rendered last.
C29_OneUpdatePerInput ==
    (/\ lastEvent # <<>>
     /\ lastEvent[1].name = "input threshold-slider"
     /\ thresholdData # NoData) =>
        /\ sliderUpdate[1].calls = 1
        /\ sliderUpdate[1].data = thresholdData

====
